---- MODULE Spec2Model ----
\* Model of the Outline management-API client (package outline_lib):
\* the request executor, the endpoint methods and the two caches of Client.
EXTENDS Integers, Sequences, FiniteSets, TLC

\* ---------------------------------------------------------------- bounds
\* Longest access-key list the server returns.
MaxKeys == 3

\* ---------------------------------------------------------------- constants
StatusOK == 200
StatusNoContent == 204
StatusErrorFloor == 400

\* ---------------------------------------------------------------- data
Ids == {"a", "b"}
\* ids asked for by callers: the server's ids and one the server never uses
LookupIds == Ids \cup {"z"}
\* integer ids taken by RenameAccessKey / SetDataLimitAccessKey / DeleteDataLimitAccessKey
IntIds == {0, 1}

\* type AccessKey: Id and Name (the other fields are carried the same way as Name)
AccessKey ==
  { [Id |-> "a", Name |-> "n1"], [Id |-> "a", Name |-> "n2"], [Id |-> "b", Name |-> "n1"] }

\* the zero value AccessKey{}
ZeroAccessKey == [Id |-> "", Name |-> ""]

\* []AccessKey values of length 0..MaxKeys; a nil slice and an empty slice are
\* both <<>> (the code reads the slice through len and range only)
KeyLists == UNION { [1..n -> AccessKey] : n \in 0..MaxKeys }

\* map[string]int64: nil, or a mapping from some ids to byte counts
NilMap == [isNil |-> TRUE, m |-> <<>>]
TransferMaps == { [isNil |-> FALSE, m |-> [id \in S |-> 100]] : S \in SUBSET Ids }

\* error values: nil, or a message with the status code it carries and the
\* message of the error it wraps
NoErr == [msg |-> "nil", code |-> 0, wraps |-> "nil"]
Err(msg, code) == [msg |-> msg, code |-> code, wraps |-> "nil"]
Wrap(msg, e) == [msg |-> msg, code |-> e.code, wraps |-> e.msg]

\* fmt.Sprintf("%d", n) for the integer ids in use
Itoa(n) == CASE n = 0 -> "0" [] n = 1 -> "1" [] n = 2 -> "2" [] OTHER -> "?"

\* ---------------------------------------------------------------- network
\* What the transport does with one request: the request cannot be built
\* (nothing is sent), the round trip fails, or a response arrives.
JsonBody(form, has, keys, data, key) ==
  [form |-> form, has |-> has, keys |-> keys, data |-> data, key |-> key]
NoBody == JsonBody("empty", FALSE, <<>>, NilMap, ZeroAccessKey)
BadRequest == [kind |-> "badrequest", StatusCode |-> 0, Body |-> NoBody]
TransportFail == [kind |-> "transport", StatusCode |-> 0, Body |-> NoBody]
Response(code, body) == [kind |-> "response", StatusCode |-> code, Body |-> body]

Statuses == {200, 201, 204, 304, 399, 400, 404, 500}
EndpointNets == {BadRequest, TransportFail} \cup { Response(s, NoBody) : s \in Statuses }

\* bodies of GET /access-keys: not JSON, JSON without the accessKeys field,
\* JSON with a list
ListBodies ==
  { JsonBody("malformed", FALSE, <<>>, NilMap, ZeroAccessKey),
    JsonBody("json", FALSE, <<>>, NilMap, ZeroAccessKey) }
  \cup { JsonBody("json", TRUE, l, NilMap, ZeroAccessKey) : l \in KeyLists }
ListNets ==
  {TransportFail, Response(StatusErrorFloor, NoBody)}
  \cup { Response(StatusOK, b) : b \in ListBodies }

\* bodies of GET /metrics/transfer
TransferBodies ==
  { JsonBody("malformed", FALSE, <<>>, NilMap, ZeroAccessKey),
    JsonBody("json", FALSE, <<>>, NilMap, ZeroAccessKey) }
  \cup { JsonBody("json", TRUE, <<>>, t, ZeroAccessKey) : t \in TransferMaps }
TransferNets ==
  {TransportFail, Response(StatusErrorFloor, NoBody)}
  \cup { Response(StatusOK, b) : b \in TransferBodies }

\* outcomes of POST /access-keys
CreateNets ==
  {TransportFail, Response(StatusErrorFloor, NoBody),
   Response(201, JsonBody("malformed", FALSE, <<>>, NilMap, ZeroAccessKey))}
  \cup { Response(201, JsonBody("json", TRUE, <<>>, NilMap, k)) : k \in AccessKey }

\* outcomes of the delete requests of one DeleteAllKeysWithOutTraffic run
LoopNets ==
  { Response(StatusNoContent, NoBody), Response(StatusOK, NoBody),
    Response(StatusErrorFloor, NoBody), TransportFail }

\* one entry of the request log: a call of MakeRequest and what the transport did
Req(method, endpoint, net) ==
  [kind |-> net.kind, StatusCode |-> net.StatusCode, Body |-> net.Body,
   method |-> method, endpoint |-> endpoint]

\* ---------------------------------------------------------------- state
VARIABLES
  accessKeysCache,       \* Client.accessKeysCache
  transferredDataCache,  \* Client.transferredDataCache
  lastOp,                \* the method called last
  lastArg,               \* its id argument ("" when it has none)
  ret,                   \* what it returned: [val, err]
  requests               \* the MakeRequest calls it made, in order

vars == <<accessKeysCache, transferredDataCache, lastOp, lastArg, ret, requests>>

\* ---------------------------------------------------------------- request executor
NilResp == [StatusCode |-> 0, Body |-> NoBody]

\* MakeRequest with the status test off by one (> 400 for >= 400)
MakeRequest_Above400(net) ==
  IF net.kind = "badrequest"
    THEN [resp |-> NilResp, err |-> Err("failed to create request", 0)]
  ELSE IF net.kind = "transport"
    THEN [resp |-> NilResp, err |-> Err("failed to execute request", 0)]
  ELSE IF net.StatusCode > StatusErrorFloor
    THEN [resp |-> NilResp, err |-> Err("server responded with code", net.StatusCode)]
  ELSE [resp |-> [StatusCode |-> net.StatusCode, Body |-> net.Body], err |-> NoErr]

MakeRequest(net) ==
  IF net.kind = "badrequest"
    THEN [resp |-> NilResp, err |-> Err("failed to create request", 0)]
  ELSE IF net.kind = "transport"
    THEN [resp |-> NilResp, err |-> Err("failed to execute request", 0)]
  ELSE IF net.StatusCode >= StatusErrorFloor
    THEN [resp |-> NilResp, err |-> Err("server responded with code", net.StatusCode)]
  ELSE [resp |-> [StatusCode |-> net.StatusCode, Body |-> net.Body], err |-> NoErr]

\* json decoding of a body into a value that starts as `zero`: a field the
\* body does not carry keeps its zero value
parseJSONFromReader(r, zero, field) ==
  IF r.form = "nil" THEN [err |-> Err("reader is nil", 0), v |-> zero]
  ELSE IF r.form # "json" THEN [err |-> Err("decode", 0), v |-> zero]
  ELSE [err |-> NoErr, v |-> IF r.has THEN r[field] ELSE zero]

\* json.Marshal of the parameter objects the endpoint methods build (maps from
\* strings to strings, booleans, integers or such maps): it encodes every one
jsonMarshal(data) == [err |-> NoErr, bytes |-> data]

\* sendPutRequest taking every 2xx status for success
sendPutRequest_Any2xx(endpoint, data, net) ==
  LET r == MakeRequest(net)
      sent == <<Req("PUT", endpoint, net)>>
  IN IF r.err # NoErr
       THEN [err |-> Wrap("failed to send PUT request", r.err), val |-> FALSE, reqs |-> sent]
       ELSE [err |-> NoErr, val |-> (r.resp.StatusCode \in 200..299), reqs |-> sent]

sendPutRequest(endpoint, data, net) ==
  IF jsonMarshal(data).err # NoErr
    THEN [err |-> Wrap("failed to marshal data", jsonMarshal(data).err), val |-> FALSE,
          reqs |-> <<>>]
  ELSE
    LET r == MakeRequest(net)
        reqs == <<Req("PUT", endpoint, net)>>
    IN IF r.err # NoErr
         THEN [err |-> Wrap("failed to send PUT request", r.err), val |-> FALSE, reqs |-> reqs]
         ELSE [err |-> NoErr, val |-> (r.resp.StatusCode = StatusOK), reqs |-> reqs]

ChangeHostname(hostname, net) ==
  sendPutRequest(<<"/server/hostname-for-access-keys">>, [hostname |-> hostname], net)

RenameServer(name, net) == sendPutRequest(<<"/name">>, [name |-> name], net)

ChangeMetrics(flag, net) ==
  sendPutRequest(<<"/metrics/enabled">>, [metricsEnabled |-> flag], net)

ChangeDefaultPort(port, net) ==
  sendPutRequest(<<"/server/port-for-new-access-keys">>, [port |-> port], net)

SetDataLimitAllKeys(limit, net) ==
  sendPutRequest(<<"/server/access-key-data-limit">>, [limit |-> [bytes |-> limit]], net)

RenameAccessKey(id, name, net) ==
  sendPutRequest(<<"/access-keys/", Itoa(id), "/name">>, [name |-> name], net)

SetDataLimitAccessKey(id, limit, net) ==
  sendPutRequest(<<"/access-keys/", Itoa(id), "/data-limit">>, [limit |-> [bytes |-> limit]], net)

\* sendDeleteRequest comparing with StatusOK, as sendPutRequest does
sendDeleteRequest_StatusOK(endpoint, net) ==
  LET r == MakeRequest(net)
      reqs == <<Req("DELETE", endpoint, net)>>
  IN IF r.err # NoErr
       THEN [err |-> Wrap("failed to send DELETE request", r.err), val |-> FALSE, reqs |-> reqs]
       ELSE [err |-> NoErr, val |-> (r.resp.StatusCode = StatusOK), reqs |-> reqs]

sendDeleteRequest(endpoint, net) ==
  LET r == MakeRequest(net)
      reqs == <<Req("DELETE", endpoint, net)>>
  IN IF r.err # NoErr
       THEN [err |-> Wrap("failed to send DELETE request", r.err), val |-> FALSE, reqs |-> reqs]
       ELSE [err |-> NoErr, val |-> (r.resp.StatusCode = StatusNoContent), reqs |-> reqs]

DeleteAccessKey(id, net) == sendDeleteRequest(<<"/access-keys/", id>>, net)

DeleteDataLimitAccessKey(id, net) ==
  sendDeleteRequest(<<"/access-keys/", Itoa(id), "/data-limit">>, net)

DeleteAllDataLimits(net) ==
  LET r == MakeRequest(net)
      reqs == <<Req("DELETE", <<"/server/access-key-data-limit">>, net)>>
  IN IF r.err # NoErr
       THEN [err |-> Wrap("failed to delete all data limits", r.err), val |-> FALSE, reqs |-> reqs]
       ELSE IF r.resp.StatusCode = StatusNoContent
         THEN [err |-> NoErr, val |-> TRUE, reqs |-> reqs]
         ELSE [err |-> r.err, val |-> FALSE, reqs |-> reqs]

\* expired: ctx.Err() is already non-nil when the method looks at it
GetListAccessKeys(expired, net) ==
  IF expired
    THEN [err |-> Err("request timed out", 0), reqs |-> <<>>, result |-> <<>>]
  ELSE
    LET r == MakeRequest(net)
        reqs == <<Req("GET", <<"/access-keys">>, net)>>
    IN IF r.err # NoErr
         THEN [err |-> r.err, reqs |-> reqs, result |-> <<>>]
         ELSE LET d == parseJSONFromReader(r.resp.Body, <<>>, "keys")
              IN [err |-> d.err, reqs |-> reqs, result |-> d.v]

DataTransferredAccessKey(net) ==
  LET r == MakeRequest(net)
      reqs == <<Req("GET", <<"/metrics/transfer">>, net)>>
  IN IF r.err # NoErr
       THEN [err |-> r.err, reqs |-> reqs, result |-> NilMap]
       ELSE LET d == parseJSONFromReader(r.resp.Body, NilMap, "data")
            IN [err |-> d.err, reqs |-> reqs, result |-> d.v]

CreateAccessKey(net) ==
  LET r == MakeRequest(net)
      reqs == <<Req("POST", <<"/access-keys">>, net)>>
  IN IF r.err # NoErr
       THEN [err |-> r.err, val |-> ZeroAccessKey, reqs |-> reqs]
       ELSE LET d == parseJSONFromReader(r.resp.Body, ZeroAccessKey, "key")
            IN [err |-> d.err, val |-> d.v, reqs |-> reqs]

\* ---------------------------------------------------------------- caches
\* the scan keeping the last match instead of returning at the first
Scan_LastMatch(c, id, i) ==
  LET S == {j \in i..Len(c) : c[j].Id = id}
  IN IF S = {} THEN [key |-> ZeroAccessKey, found |-> FALSE]
     ELSE [key |-> c[CHOOSE j \in S : \A k \in S : k <= j], found |-> TRUE]

\* for _, key := range c { if key.Id == id { return key } }: the first match
\* from position i on, as [found, key]
RECURSIVE Scan(_, _, _)
Scan(c, id, i) ==
  IF i > Len(c) THEN [key |-> ZeroAccessKey, found |-> FALSE]
  ELSE IF c[i].Id = id THEN [key |-> c[i], found |-> TRUE]
  ELSE Scan(c, id, i + 1)

\* `fetch` is what GetListAccessKeys returns if the method calls it
GetAccessKeyByID(c, id, fetch) ==
  IF Len(c) = 0 /\ fetch.err # NoErr
    THEN [err |-> fetch.err, val |-> ZeroAccessKey, reqs |-> fetch.reqs, cache |-> c]
  ELSE
    LET cache == IF Len(c) = 0 THEN fetch.result ELSE c
        reqs == IF Len(c) = 0 THEN fetch.reqs ELSE <<>>
    IN [err |-> NoErr, val |-> Scan(cache, id, 1).key, reqs |-> reqs, cache |-> cache]

CheckAccessKeyByID(c, id, fetch) ==
  IF Len(c) = 0 /\ fetch.err # NoErr
    THEN [err |-> fetch.err, val |-> FALSE, reqs |-> fetch.reqs, cache |-> c]
  ELSE
    LET cache == IF Len(c) = 0 THEN fetch.result ELSE c
        reqs == IF Len(c) = 0 THEN fetch.reqs ELSE <<>>
    IN [err |-> NoErr, val |-> Scan(cache, id, 1).found, reqs |-> reqs, cache |-> cache]

GetNumberOfUsers(c, fetch) ==
  IF Len(c) = 0 /\ fetch.err # NoErr
    THEN [err |-> fetch.err, val |-> 0, reqs |-> fetch.reqs, cache |-> c]
  ELSE
    LET cache == IF Len(c) = 0 THEN fetch.result ELSE c
        reqs == IF Len(c) = 0 THEN fetch.reqs ELSE <<>>
    IN [err |-> NoErr, val |-> Len(cache), reqs |-> reqs, cache |-> cache]

\* GetNumberOfActiveUsers fetching on every call
GetNumberOfActiveUsers_AlwaysFetch(t, fetch) ==
  IF fetch.err # NoErr
    THEN [err |-> fetch.err, val |-> 0, reqs |-> fetch.reqs, tdc |-> t]
  ELSE [err |-> NoErr, val |-> Cardinality(DOMAIN fetch.result.m), reqs |-> fetch.reqs,
        tdc |-> fetch.result]

\* GetNumberOfActiveUsers testing len(...) == 0, as the key-list methods do
GetNumberOfActiveUsers_LenTest(t, fetch) ==
  IF Cardinality(DOMAIN t.m) = 0 /\ fetch.err # NoErr
    THEN [err |-> fetch.err, val |-> 0, reqs |-> fetch.reqs, tdc |-> t]
  ELSE
    LET tdc == IF Cardinality(DOMAIN t.m) = 0 THEN fetch.result ELSE t
        reqs == IF Cardinality(DOMAIN t.m) = 0 THEN fetch.reqs ELSE <<>>
    IN [err |-> NoErr, val |-> Cardinality(DOMAIN tdc.m), reqs |-> reqs, tdc |-> tdc]

\* `fetch` is what DataTransferredAccessKey returns if the method calls it
GetNumberOfActiveUsers(t, fetch) ==
  IF t.isNil /\ fetch.err # NoErr
    THEN [err |-> fetch.err, val |-> 0, reqs |-> fetch.reqs, tdc |-> t]
  ELSE
    LET tdc == IF t.isNil THEN fetch.result ELSE t
        reqs == IF t.isNil THEN fetch.reqs ELSE <<>>
    IN [err |-> NoErr, val |-> Cardinality(DOMAIN tdc.m), reqs |-> reqs, tdc |-> tdc]

\* the loop deleting every key, whatever the mapping holds
RECURSIVE DeleteLoop_EveryKey(_, _, _, _, _)
DeleteLoop_EveryKey(c, t, i, nets, reqs) ==
  IF i > Len(c) THEN [err |-> NoErr, val |-> TRUE, reqs |-> reqs]
  ELSE LET d == DeleteAccessKey(c[i].Id, nets[i])
       IN IF d.err # NoErr
            THEN [err |-> d.err, val |-> FALSE, reqs |-> reqs \o d.reqs]
            ELSE DeleteLoop_EveryKey(c, t, i + 1, nets, reqs \o d.reqs)

\* the loop going on after a failed delete and returning the last error
RECURSIVE DeleteLoop_KeepGoing(_, _, _, _, _)
DeleteLoop_KeepGoing(c, t, i, nets, reqs) ==
  IF i > Len(c) THEN [err |-> NoErr, val |-> TRUE, reqs |-> reqs]
  ELSE IF c[i].Id \notin DOMAIN t.m
    THEN LET d == DeleteAccessKey(c[i].Id, nets[i])
             rest == DeleteLoop_KeepGoing(c, t, i + 1, nets, reqs \o d.reqs)
         IN IF d.err # NoErr /\ rest.err = NoErr
              THEN [err |-> d.err, val |-> FALSE, reqs |-> rest.reqs]
              ELSE rest
  ELSE DeleteLoop_KeepGoing(c, t, i + 1, nets, reqs)

\* the loop of DeleteAllKeysWithOutTraffic from position i on; nets[i] is what
\* the transport does with the delete request for c[i]; a lookup in a nil map
\* finds nothing
RECURSIVE DeleteLoop(_, _, _, _, _)
DeleteLoop(c, t, i, nets, reqs) ==
  IF i > Len(c) THEN [err |-> NoErr, val |-> TRUE, reqs |-> reqs]
  ELSE IF c[i].Id \notin DOMAIN t.m
    THEN LET d == DeleteAccessKey(c[i].Id, nets[i])
         IN IF d.err # NoErr
              THEN [err |-> d.err, val |-> FALSE, reqs |-> reqs \o d.reqs]
              ELSE DeleteLoop(c, t, i + 1, nets, reqs \o d.reqs)
  ELSE DeleteLoop(c, t, i + 1, nets, reqs)

DeleteAllKeysWithOutTraffic(c, t, tfetch, lfetch, nets) ==
  IF t.isNil /\ tfetch.err # NoErr
    THEN [err |-> tfetch.err, val |-> FALSE, reqs |-> tfetch.reqs, cache |-> c, tdc |-> t]
  ELSE
    LET tdc == IF t.isNil THEN tfetch.result ELSE t
        treqs == IF t.isNil THEN tfetch.reqs ELSE <<>>
    IN IF Len(c) = 0 /\ lfetch.err # NoErr
         THEN [err |-> lfetch.err, val |-> FALSE, reqs |-> treqs \o lfetch.reqs,
               cache |-> c, tdc |-> tdc]
         ELSE
           LET cache == IF Len(c) = 0 THEN lfetch.result ELSE c
               lreqs == IF Len(c) = 0 THEN lfetch.reqs ELSE <<>>
               run == DeleteLoop(cache, tdc, 1, nets, treqs \o lreqs)
           IN [err |-> run.err, val |-> run.val, reqs |-> run.reqs, cache |-> cache, tdc |-> tdc]

\* ---------------------------------------------------------------- inputs
\* what a call of GetListAccessKeys can meet
ListFetches ==
  {[net |-> TransportFail, expired |-> TRUE]}
  \cup { [net |-> n, expired |-> FALSE] : n \in ListNets }

Failed(net) == net.kind # "response" \/ net.StatusCode >= StatusErrorFloor

\* the outcomes of the delete requests of one run over n keys, by cache
\* position; the run stops at the first failed request, so the positions after
\* it repeat it
NetPatterns ==
  [n \in 0..MaxKeys |->
     { p \in [1..n -> LoopNets] :
         \A i \in 1..(n - 1) : Failed(p[i]) => p[i + 1] = p[i] }]

\* the inputs a call consumes: all of S if it makes the request, one otherwise
Consumed(needed, S) == IF needed THEN S ELSE {CHOOSE x \in S : TRUE}

\* ---------------------------------------------------------------- actions
Init ==
  /\ accessKeysCache = <<>>
  /\ transferredDataCache = NilMap
  /\ lastOp = "NewClient"
  /\ lastArg = ""
  /\ ret = [err |-> NoErr, val |-> FALSE]
  /\ requests = <<>>

Return(op, arg, val, err, reqs) ==
  /\ lastOp' = op
  /\ lastArg' = arg
  /\ ret' = [err |-> err, val |-> val]
  /\ requests' = reqs

CallGetAccessKeyByID ==
  \E id \in LookupIds, f \in Consumed(Len(accessKeysCache) = 0, ListFetches) :
    \E r \in {GetAccessKeyByID(accessKeysCache, id, GetListAccessKeys(f.expired, f.net))} :
       /\ accessKeysCache' = r.cache
       /\ UNCHANGED transferredDataCache
       /\ Return("GetAccessKeyByID", id, r.val, r.err, r.reqs)

CallCheckAccessKeyByID ==
  \E id \in LookupIds, f \in Consumed(Len(accessKeysCache) = 0, ListFetches) :
    \E r \in {CheckAccessKeyByID(accessKeysCache, id, GetListAccessKeys(f.expired, f.net))} :
       /\ accessKeysCache' = r.cache
       /\ UNCHANGED transferredDataCache
       /\ Return("CheckAccessKeyByID", id, r.val, r.err, r.reqs)

CallGetNumberOfUsers ==
  \E f \in Consumed(Len(accessKeysCache) = 0, ListFetches) :
    \E r \in {GetNumberOfUsers(accessKeysCache, GetListAccessKeys(f.expired, f.net))} :
       /\ accessKeysCache' = r.cache
       /\ UNCHANGED transferredDataCache
       /\ Return("GetNumberOfUsers", "", r.val, r.err, r.reqs)

CallGetNumberOfActiveUsers ==
  \E n \in TransferNets :
    \E r \in {GetNumberOfActiveUsers(transferredDataCache, DataTransferredAccessKey(n))} :
       /\ transferredDataCache' = r.tdc
       /\ UNCHANGED accessKeysCache
       /\ Return("GetNumberOfActiveUsers", "", r.val, r.err, r.reqs)

CallDeleteAllKeysWithOutTraffic ==
  \E n \in Consumed(transferredDataCache.isNil, TransferNets),
     f \in Consumed(Len(accessKeysCache) = 0, ListFetches) :
    \E nets \in NetPatterns[IF Len(accessKeysCache) = 0
                              THEN Len(GetListAccessKeys(f.expired, f.net).result)
                              ELSE Len(accessKeysCache)] :
    \E r \in {DeleteAllKeysWithOutTraffic(accessKeysCache, transferredDataCache,
               DataTransferredAccessKey(n), GetListAccessKeys(f.expired, f.net), nets)} :
       /\ accessKeysCache' = r.cache
       /\ transferredDataCache' = r.tdc
       /\ Return("DeleteAllKeysWithOutTraffic", "", r.val, r.err, r.reqs)

CallDeleteAccessKey(nets) ==
  \E id \in Ids, n \in nets :
    \E r \in {DeleteAccessKey(id, n)} :
       /\ UNCHANGED <<accessKeysCache, transferredDataCache>>
       /\ Return("DeleteAccessKey", id, r.val, r.err, r.reqs)

CallCreateAccessKey ==
  \E n \in CreateNets :
    \E r \in {CreateAccessKey(n)} :
       /\ UNCHANGED <<accessKeysCache, transferredDataCache>>
       /\ Return("CreateAccessKey", "", r.val, r.err, r.reqs)

Next ==
  \/ CallGetAccessKeyByID
  \/ CallCheckAccessKeyByID
  \/ CallGetNumberOfUsers
  \/ CallGetNumberOfActiveUsers
  \/ CallDeleteAllKeysWithOutTraffic
  \/ CallDeleteAccessKey(LoopNets)
  \/ CallCreateAccessKey

Spec == Init /\ [][Next]_vars

\* ---------------------------------------------------------------- endpoint calls
\* a direct call of the request executor
CallMakeRequest ==
  \E verb \in {"GET", "PUT", "POST", "DELETE"}, n \in EndpointNets :
    \E r \in {MakeRequest(n)} :
       /\ UNCHANGED <<accessKeysCache, transferredDataCache>>
       /\ Return("MakeRequest", "", r.resp, r.err, <<Req(verb, <<"/server">>, n)>>)

CallChangeHostname ==
  \E n \in EndpointNets :
    \E r \in {ChangeHostname("h", n)} :
       /\ UNCHANGED <<accessKeysCache, transferredDataCache>>
       /\ Return("ChangeHostname", "", r.val, r.err, r.reqs)

CallRenameServer ==
  \E n \in EndpointNets :
    \E r \in {RenameServer("s", n)} :
       /\ UNCHANGED <<accessKeysCache, transferredDataCache>>
       /\ Return("RenameServer", "", r.val, r.err, r.reqs)

CallChangeMetrics ==
  \E flag \in BOOLEAN, n \in EndpointNets :
    \E r \in {ChangeMetrics(flag, n)} :
       /\ UNCHANGED <<accessKeysCache, transferredDataCache>>
       /\ Return("ChangeMetrics", "", r.val, r.err, r.reqs)

CallChangeDefaultPort ==
  \E n \in EndpointNets :
    \E r \in {ChangeDefaultPort(443, n)} :
       /\ UNCHANGED <<accessKeysCache, transferredDataCache>>
       /\ Return("ChangeDefaultPort", "", r.val, r.err, r.reqs)

CallSetDataLimitAllKeys ==
  \E n \in EndpointNets :
    \E r \in {SetDataLimitAllKeys(100, n)} :
       /\ UNCHANGED <<accessKeysCache, transferredDataCache>>
       /\ Return("SetDataLimitAllKeys", "", r.val, r.err, r.reqs)

CallRenameAccessKey ==
  \E id \in IntIds, n \in EndpointNets :
    \E r \in {RenameAccessKey(id, "k", n)} :
       /\ UNCHANGED <<accessKeysCache, transferredDataCache>>
       /\ Return("RenameAccessKey", Itoa(id), r.val, r.err, r.reqs)

CallSetDataLimitAccessKey ==
  \E id \in IntIds, n \in EndpointNets :
    \E r \in {SetDataLimitAccessKey(id, 100, n)} :
       /\ UNCHANGED <<accessKeysCache, transferredDataCache>>
       /\ Return("SetDataLimitAccessKey", Itoa(id), r.val, r.err, r.reqs)

CallDeleteDataLimitAccessKey ==
  \E id \in IntIds, n \in EndpointNets :
    \E r \in {DeleteDataLimitAccessKey(id, n)} :
       /\ UNCHANGED <<accessKeysCache, transferredDataCache>>
       /\ Return("DeleteDataLimitAccessKey", Itoa(id), r.val, r.err, r.reqs)

CallDeleteAllDataLimits ==
  \E n \in EndpointNets :
    \E r \in {DeleteAllDataLimits(n)} :
       /\ UNCHANGED <<accessKeysCache, transferredDataCache>>
       /\ Return("DeleteAllDataLimits", "", r.val, r.err, r.reqs)

NextEndpoints ==
  \/ CallMakeRequest
  \/ CallChangeHostname
  \/ CallRenameServer
  \/ CallChangeMetrics
  \/ CallChangeDefaultPort
  \/ CallSetDataLimitAllKeys
  \/ CallRenameAccessKey
  \/ CallSetDataLimitAccessKey
  \/ CallDeleteAccessKey(EndpointNets)
  \/ CallDeleteDataLimitAccessKey
  \/ CallDeleteAllDataLimits

\* the endpoint methods and the request executor under every transport outcome
SpecEndpoints == Init /\ [][NextEndpoints]_vars

\* ---------------------------------------------------------------- properties
\* reading the request log
IsDelete(e) == e.method = "DELETE"
IsListGet(e) == e.method = "GET" /\ e.endpoint = <<"/access-keys">>
IsTransferGet(e) == e.method = "GET" /\ e.endpoint = <<"/metrics/transfer">>
\* the request did not come back with a status below 400
EntryFailed(e) == e.kind # "response" \/ e.StatusCode >= 400
DeleteEntries(reqs) == SelectSeq(reqs, IsDelete)
\* the ids of a sequence of delete requests for /access-keys/{id}
DeletedIds(reqs) == [i \in 1..Len(DeleteEntries(reqs)) |-> DeleteEntries(reqs)[i].endpoint[2]]
\* the ids of the keys of c that the mapping t has no entry for, in order
NoTraffic(k, t) == k.Id \notin DOMAIN t.m
UnmappedIds(c, t) ==
  LET s == SelectSeq(c, LAMBDA k : NoTraffic(k, t))
  IN [i \in 1..Len(s) |-> s[i].Id]
\* the first key of c with the id, or the zero value
FirstWithId(c, id) ==
  LET S == {i \in 1..Len(c) : c[i].Id = id}
  IN IF S = {} THEN ZeroAccessKey
     ELSE c[CHOOSE i \in S : \A j \in S : i <= j]

PutOps ==
  {"ChangeHostname", "RenameServer", "ChangeMetrics", "ChangeDefaultPort",
   "SetDataLimitAllKeys", "RenameAccessKey", "SetDataLimitAccessKey"}
DeleteOps == {"DeleteAccessKey", "DeleteDataLimitAccessKey"}

\* C1: after a GetAccessKeyByID call that found the cache empty and fetched the
\* list successfully (whatever list came back, the empty one included), the next
\* GetAccessKeyByID call sends no request: the two calls make one GET
\* /access-keys in total.
C1_SecondCallFromCache ==
  [][ ( /\ lastOp = "GetAccessKeyByID"
        /\ ret.err = NoErr
        /\ Len(requests) = 1
        /\ IsListGet(requests[1])
        /\ lastOp' = "GetAccessKeyByID" )
      => requests' = <<>> ]_vars

\* C2: a cache that is Populated (a non-empty key list, a non-nil mapping) is
\* left as it is by every call, a successful DeleteAccessKey included.
C2_CachesOneWay ==
  [][ /\ (Len(accessKeysCache) > 0 => accessKeysCache' = accessKeysCache)
      /\ (~transferredDataCache.isNil => transferredDataCache' = transferredDataCache) ]_vars

\* a delete the server confirmed, of a key that is (still) in the populated cache
C2_Witness ==
  /\ lastOp = "DeleteAccessKey"
  /\ ret.val = TRUE
  /\ \E i \in 1..Len(accessKeysCache) : accessKeysCache[i].Id = lastArg
  /\ ~transferredDataCache.isNil

\* C3: in a run of DeleteAllKeysWithOutTraffic in which no delete request
\* fails, the delete requests are exactly those for the cached keys that have no
\* entry in the transferred-data mapping, one each and in cache order (none at
\* all when the run stops while populating a cache), and none is for a key with
\* an entry.
C3_DeletesExactlyUnmapped ==
  ( /\ lastOp = "DeleteAllKeysWithOutTraffic"
    /\ \A i \in 1..Len(requests) : IsDelete(requests[i]) => ~EntryFailed(requests[i]) )
  => /\ DeletedIds(requests) =
          IF ret.err = NoErr THEN UnmappedIds(accessKeysCache, transferredDataCache)
          ELSE <<>>
     /\ \A i \in 1..Len(requests) :
          IsDelete(requests[i]) =>
            /\ requests[i].endpoint[1] = "/access-keys/"
            /\ Len(requests[i].endpoint) = 2
            /\ requests[i].endpoint[2] \notin DOMAIN transferredDataCache.m

\* a key with traffic is skipped and two keys without are deleted
C3_Witness ==
  /\ lastOp = "DeleteAllKeysWithOutTraffic"
  /\ ret.val = TRUE
  /\ Len(accessKeysCache) = 3
  /\ accessKeysCache[1].Id \in DOMAIN transferredDataCache.m
  /\ Len(DeleteEntries(requests)) = 2

\* C4: when a delete request of a DeleteAllKeysWithOutTraffic run fails, it is
\* the last request of the run, the run returns false with that request's
\* error, the requests before it are the confirmed or unconfirmed deletes that
\* did not fail, and nothing (no create, no further delete) follows to undo them.
C4_AbortOnFirstFailure ==
  ( /\ lastOp = "DeleteAllKeysWithOutTraffic"
    /\ \E i \in 1..Len(requests) : IsDelete(requests[i]) /\ EntryFailed(requests[i]) )
  => LET n == Len(requests)
     IN /\ IsDelete(requests[n]) /\ EntryFailed(requests[n])
        /\ \A j \in 1..(n - 1) : ~EntryFailed(requests[j])
        /\ \A j \in 1..n : requests[j].method \in {"GET", "DELETE"}
        /\ ret.val = FALSE
        /\ ret.err = Wrap("failed to send DELETE request", MakeRequest(
               [kind |-> requests[n].kind, StatusCode |-> requests[n].StatusCode,
                Body |-> requests[n].Body]).err)
        /\ Len(DeletedIds(requests)) <= Len(UnmappedIds(accessKeysCache, transferredDataCache))
        /\ DeletedIds(requests) =
             SubSeq(UnmappedIds(accessKeysCache, transferredDataCache), 1,
                    Len(DeletedIds(requests)))

\* the first delete is confirmed, the second fails, a third key is never tried
C4_Witness ==
  /\ lastOp = "DeleteAllKeysWithOutTraffic"
  /\ Len(DeleteEntries(requests)) = 2
  /\ DeleteEntries(requests)[1].StatusCode = StatusNoContent
  /\ EntryFailed(DeleteEntries(requests)[2])
  /\ Len(UnmappedIds(accessKeysCache, transferredDataCache)) = 3
  /\ ret.val = FALSE

\* C5 (as stated): MakeRequest returns a response exactly when the transport
\* succeeds and the status is 2xx; otherwise an error and no response.
C5_ResponseIff2xx ==
  lastOp = "MakeRequest" =>
    /\ ret.err = NoErr <=>
         (requests[1].kind = "response" /\ requests[1].StatusCode \in 200..299)
    /\ ret.err # NoErr => ret.val = NilResp

\* C5 (amended): MakeRequest returns the response, with its status, exactly
\* when the transport succeeds and the status is below 400; for a status of 400
\* or more, a request that cannot be built or a transport failure it returns an
\* error and no response.
C5_ResponseIffBelow400 ==
  lastOp = "MakeRequest" =>
    /\ ret.err = NoErr <=>
         (requests[1].kind = "response" /\ requests[1].StatusCode < 400)
    /\ ret.err = NoErr => ret.val.StatusCode = requests[1].StatusCode
    /\ ret.err # NoErr => ret.val = NilResp
    /\ (requests[1].kind = "response" /\ requests[1].StatusCode >= 400)
         => ret.err.code = requests[1].StatusCode

\* a status that is neither 2xx nor an error status comes back as a response
C5_Witness ==
  /\ lastOp = "MakeRequest"
  /\ requests[1].kind = "response"
  /\ requests[1].StatusCode = 304
  /\ ret.err = NoErr
  /\ ret.val.StatusCode = 304

\* C6 (as stated): a DELETE-style method returns true for status 204 and, for
\* every other status, false without an error.
C6_OtherStatusFalseNoError ==
  (lastOp \in DeleteOps /\ requests[1].kind = "response") =>
    /\ requests[1].StatusCode = 204 => (ret.val = TRUE /\ ret.err = NoErr)
    /\ requests[1].StatusCode # 204 => (ret.val = FALSE /\ ret.err = NoErr)

\* C6 (amended): a DELETE-style method returns true (no error) for status 204,
\* false without an error for every other status below 400, and false with an
\* error that carries the status for every status of 400 or more.
C6_DeleteStatus ==
  (lastOp \in DeleteOps /\ requests[1].kind = "response") =>
    /\ requests[1].StatusCode = 204 => (ret.val = TRUE /\ ret.err = NoErr)
    /\ (requests[1].StatusCode # 204 /\ requests[1].StatusCode < 400)
         => (ret.val = FALSE /\ ret.err = NoErr)
    /\ requests[1].StatusCode >= 400
         => (ret.val = FALSE /\ ret.err # NoErr /\ ret.err.code = requests[1].StatusCode)

\* status 200 on a delete: false, no error
C6_Witness ==
  /\ lastOp = "DeleteDataLimitAccessKey"
  /\ requests[1].kind = "response"
  /\ requests[1].StatusCode = 200
  /\ ret.val = FALSE
  /\ ret.err = NoErr

\* C7: a PUT-style method returns true if and only if a response arrives with
\* status exactly 200; every other 2xx status, every other status and every
\* failure gives false.
C7_PutTrueIff200 ==
  lastOp \in PutOps =>
    /\ Len(requests) = 1
    /\ requests[1].method = "PUT"
    /\ ret.val = TRUE <=>
         (requests[1].kind = "response" /\ requests[1].StatusCode = 200)
    /\ ret.val = TRUE => ret.err = NoErr

\* another 2xx status on a put: false
C7_Witness ==
  /\ lastOp = "RenameAccessKey"
  /\ requests[1].kind = "response"
  /\ requests[1].StatusCode = 204
  /\ ret.val = FALSE
  /\ ret.err = NoErr

\* C8: on a populated access-key cache, GetAccessKeyByID returns the first
\* cached key with the id, or the zero-value key when there is none, and
\* CheckAccessKeyByID returns whether there is one; both return a nil error
\* and send no request.
C8_LookupOnPopulatedCache ==
  [][ (Len(accessKeysCache) > 0 /\ lastOp' \in {"GetAccessKeyByID", "CheckAccessKeyByID"})
      => /\ ret'.err = NoErr
         /\ requests' = <<>>
         /\ lastOp' = "GetAccessKeyByID"
              => ret'.val = FirstWithId(accessKeysCache, lastArg')
         /\ lastOp' = "CheckAccessKeyByID"
              => ret'.val = (\E i \in 1..Len(accessKeysCache) :
                               accessKeysCache[i].Id = lastArg') ]_vars

\* a lookup of an id the populated cache does not hold
C8_Witness ==
  /\ lastOp = "GetAccessKeyByID"
  /\ Len(accessKeysCache) > 0
  /\ requests = <<>>
  /\ \A i \in 1..Len(accessKeysCache) : accessKeysCache[i].Id # lastArg
  /\ ret.val = ZeroAccessKey
  /\ ret.err = NoErr

\* C9: GetNumberOfActiveUsers on a non-nil mapping (an empty one included)
\* sends no request and returns the number of entries; on a nil mapping it
\* sends one GET /metrics/transfer and, when that succeeds, stores the mapping
\* of the response and returns its size.
C9_FetchOnlyWhenNil ==
  [][ lastOp' = "GetNumberOfActiveUsers" =>
        IF ~transferredDataCache.isNil
          THEN /\ requests' = <<>>
               /\ ret'.err = NoErr
               /\ ret'.val = Cardinality(DOMAIN transferredDataCache.m)
               /\ transferredDataCache' = transferredDataCache
          ELSE /\ Len(requests') = 1
               /\ IsTransferGet(requests'[1])
               /\ ret'.err = NoErr =>
                    /\ transferredDataCache' =
                         (IF requests'[1].Body.has THEN requests'[1].Body.data ELSE NilMap)
                    /\ ret'.val = Cardinality(DOMAIN transferredDataCache'.m)
               /\ ret'.err # NoErr =>
                    (transferredDataCache' = transferredDataCache /\ ret'.val = 0) ]_vars

\* the empty non-nil mapping: no request, result 0
C9_Witness ==
  /\ lastOp = "GetNumberOfActiveUsers"
  /\ ~transferredDataCache.isNil
  /\ DOMAIN transferredDataCache.m = {}
  /\ requests = <<>>
  /\ ret.val = 0
  /\ ret.err = NoErr

\* C10: when DeleteAllKeysWithOutTraffic returns true, every delete request it
\* sent was answered with status 204.
C10_TrueOnlyIfAllConfirmed ==
  (lastOp = "DeleteAllKeysWithOutTraffic" /\ ret.val = TRUE) =>
    \A i \in 1..Len(requests) :
      IsDelete(requests[i]) =>
        (requests[i].kind = "response" /\ requests[i].StatusCode = StatusNoContent)

====
